---- MODULE Spec2Model ----
(***************************************************************************)
(* The Stripe webhook receiver: POST /webhook of the complete handler      *)
(* (src/unnamed/part_000, lines 95-274) and of the basic handler           *)
(* (src/src/index.ts, lines 15-77), over the two tables they touch         *)
(* (checkout sessions, unique on stripeSessionId; users, unique on email)  *)
(* and the line-item lookup.  A request is one async function: it runs     *)
(* from one await to the next without interruption, and requests           *)
(* interleave at the awaits.                                               *)
(***************************************************************************)
EXTENDS Integers, Sequences, FiniteSets, TLC

VARIABLES
    webhookSecret,  \* process.env.STRIPE_WEBHOOK_SECRET (optional string)
    sessions,       \* the checkoutSession table, rows in insertion order
    users,          \* the user table, rows in insertion order
    reqs            \* the requests: locals of each run of the handler

vars == <<webhookSecret, sessions, users, reqs>>

----------------------------------------------------------------------------
(* Bounds *)

NumRequests == 2
MaxNameLen == 3
MaxItems == 2

Requests == 1..NumRequests

----------------------------------------------------------------------------
(* Optional values: null/undefined is <<>>, a value v is <<v>> *)

None == <<>>
Some(v) == <<v>>
IsSome(o) == o # <<>>
Val(o) == o[1]

\* JS truthiness of an optional string / an optional number
TruthyStr(o) == IsSome(o) /\ Val(o) # ""
TruthyNum(o) == IsSome(o) /\ Val(o) # 0

\* a || d  for optional strings and numbers: the value, or d when falsy
OrStr(o, d) == IF TruthyStr(o) THEN Val(o) ELSE d
OrNum(o, d) == IF TruthyNum(o) THEN Val(o) ELSE d
\* a || null
OrNull(o) == IF TruthyStr(o) THEN o ELSE None

----------------------------------------------------------------------------
(* Strings that the code takes apart are sequences of characters *)

Chars == {"a", "b", " "}
Unknown == <<"U", "n", "k", "n", "o", "w", "n">>
User == <<"U", "s", "e", "r">>

RECURSIVE StrsUpTo(_)
StrsUpTo(n) ==
    IF n = 0 THEN {<<>>}
    ELSE LET S == StrsUpTo(n - 1)
         IN S \cup {Append(s, c) : s \in {t \in S : Len(t) = n - 1}, c \in Chars}

\* String.prototype.split(' '): cut at every single space, empty pieces kept
RECURSIVE SplitSpace(_)
SplitSpace(s) ==
    IF \A i \in 1..Len(s) : s[i] # " " THEN <<s>>
    ELSE LET i == CHOOSE k \in 1..Len(s) :
                      s[k] = " " /\ \A j \in 1..(k - 1) : s[j] # " "
         IN <<SubSeq(s, 1, i - 1)>> \o SplitSpace(SubSeq(s, i + 1, Len(s)))

\* Array.prototype.join(' ')
RECURSIVE JoinSpace(_)
JoinSpace(parts) ==
    IF parts = <<>> THEN <<>>
    ELSE IF Len(parts) = 1 THEN parts[1]
    ELSE parts[1] \o <<" ">> \o JoinSpace(Tail(parts))

\* name?.split(' ')[0] || 'Unknown'
FirstNameOf(name) ==
    IF ~IsSome(name) THEN Unknown
    ELSE LET first == SplitSpace(Val(name))[1]
         IN IF first # <<>> THEN first ELSE Unknown

\* name?.split(' ').slice(1).join(' ') || 'User'
LastNameOf(name) ==
    IF ~IsSome(name) THEN User
    ELSE LET rest == JoinSpace(Tail(SplitSpace(Val(name))))
         IN IF rest # <<>> THEN rest ELSE User

----------------------------------------------------------------------------
(* The designated product *)

AstrologyProductId == "prod_TUrnEqRRgTx9Gz"
AstrologyProductName == "Astrology Time Zone"
OtherProductId == "prod_other"
OtherProductName == "Tarot Reading"

\* item.price?.product: an expanded product, a bare id, or nothing
ProductObject(id, name) == [kind |-> "object", id |-> id, name |-> name]
ProductString(id) == [kind |-> "string", id |-> id, name |-> ""]
ProductAbsent == [kind |-> "absent", id |-> "", name |-> ""]

\* a fault: the id is not compared
ItemMatches_NameOnly(product) ==
    IF product.kind = "object"
    THEN product.name = AstrologyProductName
    ELSE FALSE

\* the callback of lineItems.data.some(...)
ItemMatches(product) ==
    IF product.kind = "object"
    THEN \/ product.id = AstrologyProductId
         \/ product.name = AstrologyProductName
    ELSE FALSE

\* lineItems.data.some(...)
AstrologyProductPurchased(data) ==
    \E i \in 1..Len(data) : ItemMatches(data[i])

----------------------------------------------------------------------------
(* The inbound event, as stripe.webhooks.constructEvent parses it *)

CheckoutCompleted == "checkout.session.completed"
OtherEventType == "payment_intent.succeeded"

SeededEmail == "free.user2@example.com"
OtherSeededEmail == "free.user1@example.com"

\* session.customer: a customer id, an expanded customer, or null
CustomerString(id) == [kind |-> "string", id |-> Some(id)]
CustomerObject(id) == [kind |-> "object", id |-> id]
CustomerAbsent == [kind |-> "absent", id |-> None]

Details(email, name) == Some([email |-> email, name |-> name])

SessionA ==
    [id |-> Some("cs_1"), customer |-> CustomerString("cus_1"),
     customer_details |-> Details(Some(SeededEmail), Some(<<"a", " ", "b">>)),
     amount_total |-> Some(5000), currency |-> Some("eur"),
     payment_status |-> Some("paid")]

\* the same session id with every optional field absent
SessionB ==
    [id |-> Some("cs_1"), customer |-> CustomerAbsent,
     customer_details |-> Details(Some(SeededEmail), None),
     amount_total |-> None, currency |-> None, payment_status |-> None]

SessionC ==
    [id |-> Some("cs_2"), customer |-> CustomerObject(Some("cus_1")),
     customer_details |-> Details(Some(SeededEmail), Some(<<"a">>)),
     amount_total |-> Some(0), currency |-> Some("usd"),
     payment_status |-> Some("unpaid")]

\* no customer_details at all
SessionD == [SessionC EXCEPT !.customer_details = None]

\* customer_details without an email
SessionE == [SessionA EXCEPT !.customer_details = Details(None, Some(<<"a">>))]

\* customer_details with an empty email
SessionF == [SessionC EXCEPT !.customer_details = Details(Some(""), None)]

SessionNoId == [SessionA EXCEPT !.id = None]

Event(type, data) == Some([type |-> type, data |-> data])
DataOf(object) == Some([object |-> object])

ValidSessions == {SessionA, SessionB, SessionC, SessionD, SessionE, SessionF}

CheckoutEvents ==
    {Event(Some(CheckoutCompleted), DataOf(Some(s))) : s \in ValidSessions}

MalformedEvents ==
    { None,
      Event(None, DataOf(Some(SessionA))),
      Event(Some(OtherEventType), None),
      Event(Some(CheckoutCompleted), None),
      Event(Some(CheckoutCompleted), DataOf(None)),
      Event(Some(CheckoutCompleted), DataOf(Some(SessionNoId))) }

IgnoredEvents ==
    { Event(Some(OtherEventType), DataOf(Some(SessionA))),
      Event(Some(OtherEventType), DataOf(None)) }

Bodies == CheckoutEvents \cup MalformedEvents \cup IgnoredEvents

\* event.data.object of a checkout event that passed the structure checks
SessionOf(event) == Val(Val(Val(event).data).object)

\* session.customer_details?.email
CustomerEmailOf(session) ==
    IF IsSome(session.customer_details)
    THEN Val(session.customer_details).email ELSE None

\* session.customer_details?.name
CustomerNameOf(session) ==
    IF IsSome(session.customer_details)
    THEN Val(session.customer_details).name ELSE None

----------------------------------------------------------------------------
(* Signature verification *)

EndpointSecret == "whsec_endpoint"
GoodSig == "t=1,v1=hmac(body,whsec_endpoint)"
BadSig == "invalid_signature_here"

Sigs == {None, Some(BadSig), Some(GoodSig)}
Secrets == {None, Some(""), Some("whsec_wrong"), Some(EndpointSecret)}

\* !sig || !webhookSecret
CredentialsMissing(sig, secret) == ~TruthyStr(sig) \/ ~TruthyStr(secret)

\* a fault: the body is parsed and the signature is not checked
ConstructEvent_Unchecked(body, sig, secret) == [ok |-> TRUE, event |-> body]

\* stripe.webhooks.constructEvent: throws unless the header is the signature
\* of the body under the secret; returns the parsed body
ConstructEvent(body, sig, secret) ==
    IF Val(sig) = GoodSig /\ Val(secret) = EndpointSecret
    THEN [ok |-> TRUE, event |-> body]
    ELSE [ok |-> FALSE, event |-> None]

----------------------------------------------------------------------------
(* The store (Prisma over PostgreSQL).  An operation returns the error it  *)
(* throws (None when it does not throw) and the table it leaves.           *)

UniqueSessionMsg == "Unique constraint failed on the fields: (stripeSessionId)"
UniqueEmailMsg == "Unique constraint failed on the fields: (email)"
StoreDownMsg == "Can't reach database server"
NotFoundMsg == "Record to update not found"
MissingArgMsg == "Argument stripeSessionId is missing"
LookupDownMsg == "An error occurred with our connection to Stripe"

\* a fault: no error is taken for the duplicate signal
IsDuplicate_Never(err) == FALSE

\* dbError instanceof Error && dbError.message.includes('Unique constraint')
IsDuplicate(err) == IsSome(err) /\ Val(err) \in {UniqueSessionMsg, UniqueEmailMsg}

\* the data of prisma.checkoutSession.create in the complete handler
SessionData(session) ==
    [stripeSessionId |-> Val(session.id),
     customerId |-> IF session.customer.kind = "string"
                    THEN session.customer.id
                    ELSE OrNull(session.customer.id),
     customerEmail |-> OrNull(CustomerEmailOf(session)),
     amountTotal |-> OrNum(session.amount_total, 0),
     currency |-> OrStr(session.currency, "usd"),
     paymentStatus |-> OrStr(session.payment_status, "unknown")]

\* the data of prisma.checkoutSession.create in the basic handler: the
\* customerEmail column is not given and stays null
BasicSessionData(session) ==
    [SessionData(session) EXCEPT !.customerEmail = None]

SessionRowsWith(table, sid) ==
    {i \in 1..Len(table) : table[i].stripeSessionId = sid}

UserRowsWith(table, email) ==
    {i \in 1..Len(table) : table[i].email = email}

\* a fault: a table with no unique index on stripeSessionId
DbSessionCreate_NoUnique(table, data) ==
    [err |-> None, table |-> Append(table, data)]

\* a fault: an upsert, which overwrites the row of a known session id
DbSessionCreate_Upserts(table, data) ==
    IF SessionRowsWith(table, data.stripeSessionId) # {}
    THEN [err |-> None,
          table |-> [i \in 1..Len(table) |->
                        IF table[i].stripeSessionId = data.stripeSessionId
                        THEN data ELSE table[i]]]
    ELSE [err |-> None, table |-> Append(table, data)]

\* prisma.checkoutSession.create: stripeSessionId is @unique
DbSessionCreate(table, data) ==
    IF SessionRowsWith(table, data.stripeSessionId) # {}
    THEN [err |-> Some(UniqueSessionMsg), table |-> table]
    ELSE [err |-> None, table |-> Append(table, data)]

\* prisma.user.findUnique({ where: { email } }): the row, or null
DbUserFind(table, email) ==
    IF UserRowsWith(table, email) = {} THEN None
    ELSE Some(table[CHOOSE i \in UserRowsWith(table, email) : TRUE])

\* a fault: the update also writes the user type of a new customer
DbUserUpdate_SetsUserType(table, email) ==
    IF UserRowsWith(table, email) = {}
    THEN [err |-> Some(NotFoundMsg), table |-> table]
    ELSE [err |-> None,
          table |-> [i \in 1..Len(table) |->
                        IF table[i].email = email
                        THEN [table[i] EXCEPT !.hasAstrology = TRUE,
                                              !.userType = "NonMember"]
                        ELSE table[i]]]

\* a fault: the update flips the flag
DbUserUpdate_Toggles(table, email) ==
    IF UserRowsWith(table, email) = {}
    THEN [err |-> Some(NotFoundMsg), table |-> table]
    ELSE [err |-> None,
          table |-> [i \in 1..Len(table) |->
                        IF table[i].email = email
                        THEN [table[i] EXCEPT !.hasAstrology = ~@]
                        ELSE table[i]]]

\* prisma.user.update({ where: { email }, data: { hasAstrology: true } })
DbUserUpdate(table, email) ==
    IF UserRowsWith(table, email) = {}
    THEN [err |-> Some(NotFoundMsg), table |-> table]
    ELSE [err |-> None,
          table |-> [i \in 1..Len(table) |->
                        IF table[i].email = email
                        THEN [table[i] EXCEPT !.hasAstrology = TRUE]
                        ELSE table[i]]]

\* a fault: a table with no unique index on email
DbUserCreate_NoUnique(table, data) ==
    [err |-> None, table |-> Append(table, data)]

\* prisma.user.create: email is @unique
DbUserCreate(table, data) ==
    IF UserRowsWith(table, data.email) # {}
    THEN [err |-> Some(UniqueEmailMsg), table |-> table]
    ELSE [err |-> None, table |-> Append(table, data)]

\* the data of prisma.user.create
NewUserData(email, session) ==
    [email |-> email,
     firstName |-> FirstNameOf(CustomerNameOf(session)),
     lastName |-> LastNameOf(CustomerNameOf(session)),
     userType |-> "NonMember",
     hasAstrology |-> TRUE]

\* a fault: an upsert that also writes the names of the delivery
EntitlementRun_Upserts(table, session) ==
    LET email == Val(CustomerEmailOf(session)) IN
    IF IsSome(DbUserFind(table, email))
    THEN [i \in 1..Len(table) |->
             IF table[i].email = email
             THEN NewUserData(email, session) ELSE table[i]]
    ELSE DbUserCreate(table, NewUserData(email, session)).table

\* lines 206-228 run from the find to the write with no failure and no other
\* request in between: the users table they leave
EntitlementRun(table, session) ==
    LET email == Val(CustomerEmailOf(session)) IN
    IF IsSome(DbUserFind(table, email))
    THEN DbUserUpdate(table, email).table
    ELSE DbUserCreate(table, NewUserData(email, session)).table

\* rows of prisma/seed.ts
SeedUser1 ==
    [email |-> OtherSeededEmail, firstName |-> <<"A", "l", "i", "c", "e">>,
     lastName |-> <<"S", "m", "i", "t", "h">>, userType |-> "Free",
     hasAstrology |-> TRUE]

SeedUser2 ==
    [email |-> SeededEmail, firstName |-> <<"B", "o", "b">>,
     lastName |-> <<"J", "o", "h", "n", "s", "o", "n">>, userType |-> "Free",
     hasAstrology |-> FALSE]

----------------------------------------------------------------------------
(* A request: the locals of one run of the handler *)

IdleReq ==
    [pc |-> "idle", impl |-> "none", sig |-> None, verified |-> FALSE,
     event |-> None, ops |-> <<>>, status |-> <<>>, lineItems |-> None,
     purchased |-> FALSE]

Impls == {"complete", "basic"}

\* res.status(code).json(...)
Respond(req, code) ==
    [req EXCEPT !.pc = "done", !.status = Append(@, code)]

\* a call that returned or threw, as the request saw it
Did(req, op, err) ==
    [req EXCEPT !.ops = Append(@, [op |-> op, err |-> err])]

\* a TypeError thrown in the async handler outside every try: the promise
\* rejects; Express 4 sends nothing, Express 5 answers 500
Uncaught(req) ==
    { [req EXCEPT !.pc = "crashed"],
      [req EXCEPT !.pc = "crashed", !.status = Append(@, 500)] }

\* !event || !event.type || !event.data
InvalidStructure(event) ==
    \/ ~IsSome(event)
    \/ ~TruthyStr(Val(event).type)
    \/ ~IsSome(Val(event).data)

\* !session || !session.id
InvalidSession(object) ==
    ~IsSome(object) \/ ~TruthyStr(Val(object).id)

\* a fault: every event is taken for a checkout completion
IsCheckoutCompleted_Any(event) == TRUE

\* event.type === 'checkout.session.completed'
IsCheckoutCompleted(event) == Val(event).type = Some(CheckoutCompleted)

\* the complete handler from the request to its first await
EnterComplete(req, sig, secret, body) ==
    IF CredentialsMissing(sig, secret) THEN {Respond(req, 400)}
    ELSE LET ce == ConstructEvent(body, sig, secret) IN
    IF ~ce.ok THEN {Respond(req, 400)}
    ELSE LET v == [req EXCEPT !.verified = TRUE, !.event = ce.event] IN
    IF InvalidStructure(ce.event) THEN {Respond(v, 400)}
    ELSE IF IsCheckoutCompleted(ce.event)
    THEN LET object == Val(Val(ce.event).data).object IN
         \* console.log reads session.id before session is checked
         IF ~IsSome(object) THEN Uncaught(v)
         ELSE IF InvalidSession(object) THEN {Respond(v, 400)}
         ELSE {[v EXCEPT !.pc = "create"]}
    ELSE {Respond(v, 200)}

\* the basic handler from the request to its first await
EnterBasic(req, sig, secret, body) ==
    IF CredentialsMissing(sig, secret) THEN {Respond(req, 400)}
    ELSE LET ce == ConstructEvent(body, sig, secret) IN
    IF ~ce.ok THEN {Respond(req, 400)}
    ELSE LET v == [req EXCEPT !.verified = TRUE, !.event = ce.event] IN
    \* event.type of a null event
    IF ~IsSome(ce.event) THEN Uncaught(v)
    ELSE IF IsCheckoutCompleted(ce.event)
    THEN \* event.data.object of an event without data, session.id of null
         IF ~IsSome(Val(ce.event).data) THEN Uncaught(v)
         ELSE IF ~IsSome(Val(Val(ce.event).data).object) THEN Uncaught(v)
         ELSE {[v EXCEPT !.pc = "create"]}
    ELSE {Respond(v, 200)}

Enter(impl, sig, secret, body) ==
    LET req == [IdleReq EXCEPT !.impl = impl, !.sig = sig] IN
    IF impl = "complete" THEN EnterComplete(req, sig, secret, body)
    ELSE EnterBasic(req, sig, secret, body)

----------------------------------------------------------------------------
(* What the handler does when an awaited call returns or throws *)

\* a fault: the email is tested for presence, not for truthiness
AfterSessionCreate_EmailDefined(req, err) ==
    LET d == Did(req, "checkoutSession.create", err) IN
    IF IsSome(err) /\ ~IsDuplicate(err) THEN Respond(d, 500)
    ELSE IF IsSome(CustomerEmailOf(SessionOf(req.event)))
         THEN [d EXCEPT !.pc = "list"]
         ELSE Respond(d, 200)

\* a fault: a duplicate is answered at once, without the entitlement step
AfterSessionCreate_DuplicateStops(req, err) ==
    LET d == Did(req, "checkoutSession.create", err) IN
    IF IsSome(err) /\ ~IsDuplicate(err) THEN Respond(d, 500)
    ELSE IF IsSome(err) THEN Respond(d, 200)
    ELSE IF TruthyStr(CustomerEmailOf(SessionOf(req.event)))
         THEN [d EXCEPT !.pc = "list"]
         ELSE Respond(d, 200)

\* a fault: a failed create is logged and the request goes on
AfterSessionCreate_Continues(req, err) ==
    LET d == Did(req, "checkoutSession.create", err) IN
    IF TruthyStr(CustomerEmailOf(SessionOf(req.event)))
    THEN [d EXCEPT !.pc = "list"]
    ELSE Respond(d, 200)

\* lines 173-185 of the complete handler: the inner catch, then the email test
AfterSessionCreate(req, err) ==
    LET d == Did(req, "checkoutSession.create", err) IN
    IF IsSome(err) /\ ~IsDuplicate(err) THEN Respond(d, 500)
    ELSE IF TruthyStr(CustomerEmailOf(SessionOf(req.event)))
         THEN [d EXCEPT !.pc = "list"]
         ELSE Respond(d, 200)

\* lines 63-73 of the basic handler: every error is logged and dropped
BasicAfterSessionCreate(req, err) ==
    Respond(Did(req, "checkoutSession.create", err), 200)

\* the answers of stripe.checkout.sessions.listLineItems
LookupThrows == [kind |-> "throws", data |-> <<>>]
LookupNull == [kind |-> "null", data |-> <<>>]
LookupNoData == [kind |-> "nodata", data |-> <<>>]
LookupList(data) == [kind |-> "list", data |-> data]

\* a fault: a lookup that throws reaches the outer catch
AfterListLineItems_Rethrows(req, li) ==
    IF li.kind = "throws"
    THEN Respond(Did(req, "listLineItems", Some(LookupDownMsg)), 500)
    ELSE LET d == [Did(req, "listLineItems", None) EXCEPT !.lineItems = Some(li)] IN
         IF li.kind # "list" THEN Respond(d, 200)
         ELSE IF AstrologyProductPurchased(li.data)
              THEN [d EXCEPT !.purchased = TRUE, !.pc = "find"]
              ELSE Respond(d, 200)

\* lines 189-204 and 240-253
AfterListLineItems(req, li) ==
    IF li.kind = "throws"
    THEN Respond(Did(req, "listLineItems", Some(LookupDownMsg)), 200)
    ELSE LET d == [Did(req, "listLineItems", None) EXCEPT !.lineItems = Some(li)] IN
         IF li.kind # "list" THEN Respond(d, 200)
         ELSE IF AstrologyProductPurchased(li.data)
              THEN [d EXCEPT !.purchased = TRUE, !.pc = "find"]
              ELSE Respond(d, 200)

\* a fault: the found user is not looked at, a user is always created
AfterUserFind_AlwaysCreates(req, err, user) ==
    LET d == Did(req, "user.findUnique", err) IN
    IF IsSome(err) THEN Respond(d, 200) ELSE [d EXCEPT !.pc = "ucreate"]

\* lines 206-216 and 229-237
AfterUserFind(req, err, user) ==
    LET d == Did(req, "user.findUnique", err) IN
    IF IsSome(err) THEN Respond(d, 200)
    ELSE IF IsSome(user) THEN [d EXCEPT !.pc = "update"]
         ELSE [d EXCEPT !.pc = "ucreate"]

\* a fault: a failed user update reaches the outer catch
AfterUserUpdate_Rethrows(req, err) ==
    Respond(Did(req, "user.update", err), IF IsSome(err) THEN 500 ELSE 200)

\* lines 211-215, 229-253
AfterUserUpdate(req, err) == Respond(Did(req, "user.update", err), 200)

\* a fault: a failed user create reaches the outer catch
AfterUserCreate_Rethrows(req, err) ==
    Respond(Did(req, "user.create", err), IF IsSome(err) THEN 500 ELSE 200)

\* lines 218-253
AfterUserCreate(req, err) == Respond(Did(req, "user.create", err), 200)

----------------------------------------------------------------------------
(* Actions *)

Listings ==
    { LookupThrows, LookupNoData,
      LookupList(<<ProductObject(OtherProductId, OtherProductName)>>),
      LookupList(<<ProductObject(AstrologyProductId, AstrologyProductName)>>) }

\* a request arrives and runs to its first await; requests are numbered in
\* the order they arrive
Receive(r, bodies) ==
    /\ reqs[r].pc = "idle"
    /\ IF r = 1 THEN TRUE ELSE reqs[r - 1].pc # "idle"
    /\ \E impl \in Impls, sig \in Sigs, body \in bodies :
          \E n \in Enter(impl, sig, webhookSecret, body) :
              reqs' = [reqs EXCEPT ![r] = n]
    /\ UNCHANGED <<webhookSecret, sessions, users>>

\* await prisma.checkoutSession.create(...) returns or throws
SessionCreate(r) ==
    /\ reqs[r].pc = "create"
    /\ LET session == SessionOf(reqs[r].event) IN
       \E down \in BOOLEAN :
          LET res == IF down
                     THEN [err |-> Some(StoreDownMsg), table |-> sessions]
                     ELSE IF ~IsSome(session.id)
                     THEN [err |-> Some(MissingArgMsg), table |-> sessions]
                     ELSE IF reqs[r].impl = "complete"
                     THEN DbSessionCreate(sessions, SessionData(session))
                     ELSE DbSessionCreate(sessions, BasicSessionData(session))
          IN /\ sessions' = res.table
             /\ reqs' = [reqs EXCEPT ![r] =
                            IF reqs[r].impl = "complete"
                            THEN AfterSessionCreate(reqs[r], res.err)
                            ELSE BasicAfterSessionCreate(reqs[r], res.err)]
    /\ UNCHANGED <<webhookSecret, users>>

\* await stripe.checkout.sessions.listLineItems(...) returns or throws
ListLineItems(r, listings) ==
    /\ reqs[r].pc = "list"
    /\ \E li \in listings :
          reqs' = [reqs EXCEPT ![r] = AfterListLineItems(reqs[r], li)]
    /\ UNCHANGED <<webhookSecret, sessions, users>>

\* await prisma.user.findUnique(...) returns or throws
UserFind(r) ==
    /\ reqs[r].pc = "find"
    /\ LET email == Val(CustomerEmailOf(SessionOf(reqs[r].event))) IN
       \E down \in BOOLEAN :
          reqs' = [reqs EXCEPT ![r] =
                      IF down
                      THEN AfterUserFind(reqs[r], Some(StoreDownMsg), None)
                      ELSE AfterUserFind(reqs[r], None, DbUserFind(users, email))]
    /\ UNCHANGED <<webhookSecret, sessions, users>>

\* await prisma.user.update(...) returns or throws
UserUpdate(r) ==
    /\ reqs[r].pc = "update"
    /\ LET email == Val(CustomerEmailOf(SessionOf(reqs[r].event))) IN
       \E down \in BOOLEAN :
          LET res == IF down
                     THEN [err |-> Some(StoreDownMsg), table |-> users]
                     ELSE DbUserUpdate(users, email)
          IN /\ users' = res.table
             /\ reqs' = [reqs EXCEPT ![r] = AfterUserUpdate(reqs[r], res.err)]
    /\ UNCHANGED <<webhookSecret, sessions>>

\* await prisma.user.create(...) returns or throws
UserCreate(r) ==
    /\ reqs[r].pc = "ucreate"
    /\ LET session == SessionOf(reqs[r].event)
           email == Val(CustomerEmailOf(session))
       IN \E down \in BOOLEAN :
          LET res == IF down
                     THEN [err |-> Some(StoreDownMsg), table |-> users]
                     ELSE DbUserCreate(users, NewUserData(email, session))
          IN /\ users' = res.table
             /\ reqs' = [reqs EXCEPT ![r] = AfterUserCreate(reqs[r], res.err)]
    /\ UNCHANGED <<webhookSecret, sessions>>

\* every listing of at most MaxItems line items
Products ==
    {ProductObject(i, n) : i \in {AstrologyProductId, OtherProductId},
                           n \in {AstrologyProductName, OtherProductName}}
    \cup {ProductString(AstrologyProductId), ProductString(OtherProductId),
          ProductAbsent}

RECURSIVE ItemsUpTo(_)
ItemsUpTo(n) ==
    IF n = 0 THEN {<<>>}
    ELSE LET S == ItemsUpTo(n - 1)
         IN S \cup {Append(d, p) : d \in {t \in S : Len(t) = n - 1}, p \in Products}

AllListings ==
    {LookupThrows, LookupNull, LookupNoData}
    \cup {LookupList(d) : d \in ItemsUpTo(MaxItems)}

\* checkout events of one session with every display name of at most
\* MaxNameLen characters, and with none
NameBodies ==
    {Event(Some(CheckoutCompleted),
           DataOf(Some([SessionA EXCEPT !.customer_details =
                                            Details(Some(SeededEmail), name)]))) :
        name \in {None} \cup {Some(n) : n \in StrsUpTo(MaxNameLen)}}

Init ==
    /\ webhookSecret \in Secrets
    /\ sessions = <<>>
    /\ users \in {<<SeedUser1>>, <<SeedUser1, SeedUser2>>}
    /\ reqs = [r \in Requests |-> IdleReq]

Next ==
    \E r \in Requests :
        \/ Receive(r, Bodies)
        \/ SessionCreate(r)
        \/ ListLineItems(r, Listings)
        \/ UserFind(r)
        \/ UserUpdate(r)
        \/ UserCreate(r)

Spec == Init /\ [][Next]_vars

----------------------------------------------------------------------------
(* Vocabulary of the properties *)

Answered(q) == q.pc = "done"

\* the errors the request saw from its calls of op
ErrsOf(q, op) == {q.ops[i].err : i \in {j \in 1..Len(q.ops) : q.ops[j].op = op}}

Called(q, op) == \E i \in 1..Len(q.ops) : q.ops[i].op = op

UserOps == {"user.findUnique", "user.update", "user.create"}

\* the header is the signature of the body under the configured secret
SignatureVerifies(sig, secret) ==
    /\ IsSome(sig) /\ IsSome(secret)
    /\ Val(sig) = GoodSig /\ Val(secret) = EndpointSecret

\* a checkout-completion event with type, data and a session that has an id
ValidCheckout(e) ==
    /\ IsSome(e)
    /\ Val(e).type = Some(CheckoutCompleted)
    /\ IsSome(Val(e).data)
    /\ IsSome(Val(Val(e).data).object)
    /\ IsSome(Val(Val(Val(e).data).object).id)
    /\ Val(Val(Val(Val(e).data).object).id) # ""

SidOf(q) == Val(SessionOf(q.event).id)
EmailOf(q) == CustomerEmailOf(SessionOf(q.event))

SessionRecorded(q) == SessionRowsWith(sessions, SidOf(q)) # {}

\* the session create returned, or reported a duplicate: the store was there
CreateWentThrough(q) ==
    /\ Called(q, "checkoutSession.create")
    /\ ErrsOf(q, "checkoutSession.create") \subseteq {None, Some(UniqueSessionMsg)}

----------------------------------------------------------------------------
(* Properties *)

\* C1: a request whose signature header is absent, whose webhook secret is
\* absent, or whose signature does not verify against the configured secret
\* is answered 400 and calls neither the store nor the line-item lookup.
C1_UnverifiedRejected ==
    \A r \in Requests :
        (reqs[r].pc # "idle" /\ ~SignatureVerifies(reqs[r].sig, webhookSecret))
            => /\ Answered(reqs[r])
               /\ reqs[r].status = <<400>>
               /\ reqs[r].ops = <<>>

C1_Witness ==
    \E r1, r2 \in Requests :
        /\ webhookSecret = Some(EndpointSecret)
        /\ reqs[r1].sig = None /\ reqs[r1].status = <<400>>
        /\ reqs[r2].sig = Some(BadSig) /\ reqs[r2].status = <<400>>

\* C2: two deliveries of the same correctly signed checkout-completion event,
\* with the store available, are both answered 200, leave exactly one
\* checkout-session row with that stripeSessionId, and at most one of them
\* created it: the other saw the duplicate.
C2_DuplicateDelivery ==
    \A r1, r2 \in Requests :
        ( /\ r1 # r2
          /\ Answered(reqs[r1]) /\ Answered(reqs[r2])
          /\ reqs[r1].verified /\ reqs[r2].verified
          /\ ValidCheckout(reqs[r1].event)
          /\ reqs[r1].event = reqs[r2].event
          /\ CreateWentThrough(reqs[r1]) /\ CreateWentThrough(reqs[r2]) )
        => /\ reqs[r1].status = <<200>> /\ reqs[r2].status = <<200>>
           /\ Cardinality(SessionRowsWith(sessions, SidOf(reqs[r1]))) = 1
           /\ \/ Some(UniqueSessionMsg) \in ErrsOf(reqs[r1], "checkoutSession.create")
              \/ Some(UniqueSessionMsg) \in ErrsOf(reqs[r2], "checkoutSession.create")

C2_Witness ==
    \E r1, r2 \in Requests :
        /\ r1 # r2
        /\ Answered(reqs[r1]) /\ Answered(reqs[r2])
        /\ ValidCheckout(reqs[r1].event)
        /\ reqs[r1].event = reqs[r2].event
        /\ reqs[r1].impl = "complete" /\ reqs[r2].impl = "complete"
        /\ ErrsOf(reqs[r1], "checkoutSession.create") = {None}
        /\ ErrsOf(reqs[r2], "checkoutSession.create") = {Some(UniqueSessionMsg)}
        /\ reqs[r1].status = <<200>> /\ reqs[r2].status = <<200>>

\* C3 (as claimed): a correctly signed, structurally valid checkout-completion
\* event whose session create fails with an error that is not a uniqueness
\* violation is answered 500.
C3_HardFailureAnswered500 ==
    \A r \in Requests :
        ( /\ Answered(reqs[r])
          /\ reqs[r].verified
          /\ ValidCheckout(reqs[r].event)
          /\ Some(StoreDownMsg) \in ErrsOf(reqs[r], "checkoutSession.create") )
        => reqs[r].status = <<500>>

\* C4: when the line-item lookup fails, the request is answered 200, the
\* checkout-session row of its session id exists, and the request calls no
\* user operation.
C4_LookupFailureSoft ==
    \A r \in Requests :
        Some(LookupDownMsg) \in ErrsOf(reqs[r], "listLineItems")
        => /\ Answered(reqs[r])
           /\ reqs[r].status = <<200>>
           /\ SessionRecorded(reqs[r])
           /\ \A op \in UserOps : ~Called(reqs[r], op)

C4_Witness ==
    \E r \in Requests :
        /\ Some(LookupDownMsg) \in ErrsOf(reqs[r], "listLineItems")
        /\ TruthyStr(EmailOf(reqs[r]))
        /\ reqs[r].status = <<200>>

\* C5: when a user operation of the entitlement step (find by email, update,
\* create) fails, the request is answered 200 and the checkout-session row of
\* its session id is kept.
C5_UserFailureSoft ==
    \A r \in Requests :
        (\E op \in UserOps : ErrsOf(reqs[r], op) \ {None} # {})
        => /\ Answered(reqs[r])
           /\ reqs[r].status = <<200>>
           /\ SessionRecorded(reqs[r])

C5_Witness ==
    \E r1, r2 \in Requests :
        /\ Some(StoreDownMsg) \in ErrsOf(reqs[r1], "user.findUnique")
        /\ \/ Some(StoreDownMsg) \in ErrsOf(reqs[r2], "user.update")
           \/ Some(StoreDownMsg) \in ErrsOf(reqs[r2], "user.create")
        /\ reqs[r1].status = <<200>> /\ reqs[r2].status = <<200>>

\* C7: a correctly signed event that has a type and data and whose type is not
\* checkout.session.completed is answered 200 and calls nothing: it creates or
\* updates no checkout-session row and no user row.
C7_OtherTypesIgnored ==
    \A r \in Requests :
        ( /\ reqs[r].verified
          /\ IsSome(reqs[r].event)
          /\ TruthyStr(Val(reqs[r].event).type)
          /\ IsSome(Val(reqs[r].event).data)
          /\ Val(reqs[r].event).type # Some(CheckoutCompleted) )
        => /\ Answered(reqs[r])
           /\ reqs[r].status = <<200>>
           /\ reqs[r].ops = <<>>

C7_Witness ==
    \E r1, r2 \in Requests :
        /\ reqs[r1].impl = "complete" /\ reqs[r2].impl = "basic"
        /\ \A r \in {r1, r2} :
              /\ reqs[r].verified
              /\ reqs[r].event = Event(Some(OtherEventType), DataOf(Some(SessionA)))
              /\ reqs[r].status = <<200>>

\* no call of the request failed for an outage: each returned, or reported
\* a uniqueness violation
NoOutage(q) ==
    \A i \in 1..Len(q.ops) :
        q.ops[i].err \in {None, Some(UniqueSessionMsg), Some(UniqueEmailMsg)}

\* C8: after a delivery with a line item of the designated product and no
\* collaborator failure, the user of the customer email has hasAstrology =
\* TRUE and is the only user row with that email; no email has two user rows.
C8_EntitlementIdempotent ==
    /\ \A r \in Requests :
          (Answered(reqs[r]) /\ reqs[r].purchased /\ NoOutage(reqs[r]))
          => LET rows == UserRowsWith(users, Val(EmailOf(reqs[r]))) IN
             /\ Cardinality(rows) = 1
             /\ \A i \in rows : users[i].hasAstrology
    /\ \A i, j \in 1..Len(users) : users[i].email = users[j].email => i = j

\* two purchases by one email: the first creates the user, the second
\* updates it
C8_Witness ==
    \E r1, r2 \in Requests :
        /\ Answered(reqs[r1]) /\ Answered(reqs[r2])
        /\ reqs[r1].purchased /\ reqs[r2].purchased
        /\ NoOutage(reqs[r1]) /\ NoOutage(reqs[r2])
        /\ EmailOf(reqs[r1]) = EmailOf(reqs[r2])
        /\ SidOf(reqs[r1]) # SidOf(reqs[r2])
        /\ ErrsOf(reqs[r1], "user.create") = {None}
        /\ ErrsOf(reqs[r2], "user.update") = {None}
        /\ \A i \in UserRowsWith(users, Val(EmailOf(reqs[r1]))) : users[i].hasAstrology

\* a checkout-completion event with a session id and no customer email
\* (customer_details absent, its email absent, or its email empty), handled by
\* the complete handler
NoEmailCheckout(q) ==
    /\ q.impl = "complete"
    /\ q.verified
    /\ ValidCheckout(q.event)
    /\ ~TruthyStr(EmailOf(q))

\* C10 (as claimed): every such event leaves the checkout-session row, is
\* answered 200, and calls no line-item lookup and no user operation.
C10_NoEmailAsClaimed ==
    \A r \in Requests :
        (Answered(reqs[r]) /\ NoEmailCheckout(reqs[r]))
        => /\ SessionRecorded(reqs[r])
           /\ reqs[r].status = <<200>>
           /\ \A i \in 1..Len(reqs[r].ops) :
                 reqs[r].ops[i].op = "checkoutSession.create"

\* C10 (amended): such an event never calls the line-item lookup or a user
\* operation; when its session create returns or reports a duplicate, the
\* checkout-session row exists and the answer is 200.
C10_NoEmailNoEntitlement ==
    \A r \in Requests :
        NoEmailCheckout(reqs[r])
        => /\ reqs[r].pc \in {"create", "done"}
           /\ \A i \in 1..Len(reqs[r].ops) :
                 reqs[r].ops[i].op = "checkoutSession.create"
           /\ CreateWentThrough(reqs[r])
                 => /\ Answered(reqs[r])
                    /\ SessionRecorded(reqs[r])
                    /\ reqs[r].status = <<200>>

C10_Witness ==
    \E r1, r2 \in Requests :
        /\ NoEmailCheckout(reqs[r1]) /\ NoEmailCheckout(reqs[r2])
        /\ SessionOf(reqs[r1].event).customer_details = None
        /\ SessionOf(reqs[r2].event).customer_details # None
        /\ \A r \in {r1, r2} :
              /\ reqs[r].status = <<200>>
              /\ SessionRecorded(reqs[r])
              /\ Len(reqs[r].ops) = 1

----------------------------------------------------------------------------
(* One request over every line-item listing, and over every display name *)

InitOne ==
    /\ webhookSecret = Some(EndpointSecret)
    /\ sessions = <<>>
    /\ users \in {<<SeedUser1>>, <<SeedUser1, SeedUser2>>}
    /\ reqs = [r \in Requests |-> IdleReq]

NextItems ==
    \/ Receive(1, Bodies)
    \/ SessionCreate(1)
    \/ ListLineItems(1, AllListings)
    \/ UserFind(1)
    \/ UserUpdate(1)
    \/ UserCreate(1)

SpecItems == InitOne /\ [][NextItems]_vars

NextNames ==
    \/ Receive(1, NameBodies)
    \/ SessionCreate(1)
    \/ ListLineItems(1, Listings)
    \/ UserFind(1)
    \/ UserUpdate(1)
    \/ UserCreate(1)

SpecNames == InitOne /\ [][NextNames]_vars

\* the listing the lookup returned holds an item whose product satisfies P
SomeItem(q, P(_)) ==
    /\ IsSome(q.lineItems)
    /\ Val(q.lineItems).kind = "list"
    /\ \E i \in 1..Len(Val(q.lineItems).data) : P(Val(q.lineItems).data[i])

\* C6 (as claimed): the entitlement is granted iff some line item's product,
\* expanded or a bare id, has the designated id or the designated name.
C6_GrantedIffIdOrName ==
    \A r \in Requests :
        Called(reqs[r], "listLineItems")
        => (reqs[r].purchased <=>
                SomeItem(reqs[r], LAMBDA p : \/ p.id = AstrologyProductId
                                             \/ p.name = AstrologyProductName))

\* C6 (amended): the entitlement is granted iff some line item's product is an
\* expanded product with the designated id or the designated name; a bare
\* product id never matches; an empty, absent or failed listing grants
\* nothing, and no user operation is called unless it is granted.
C6_GrantedIffExpandedMatch ==
    \A r \in Requests :
        /\ Called(reqs[r], "listLineItems")
           => (reqs[r].purchased <=>
                   SomeItem(reqs[r], LAMBDA p : /\ p.kind = "object"
                                                /\ \/ p.id = AstrologyProductId
                                                   \/ p.name = AstrologyProductName))
        /\ (\E op \in UserOps : Called(reqs[r], op)) => reqs[r].purchased
        /\ reqs[r].purchased => reqs[r].pc \in {"find", "update", "ucreate", "done"}

\* a bare designated id next to an expanded product matched by name only
C6_Witness ==
    \E r \in Requests :
        /\ reqs[r].purchased
        /\ Val(reqs[r].lineItems).data =
              <<ProductString(AstrologyProductId),
                ProductObject(OtherProductId, AstrologyProductName)>>
        /\ Called(reqs[r], "user.findUnique")

\* the whitespace-separated tokens of a display name
Tokens(s) == SelectSeq(SplitSpace(s), LAMBDA t : t # <<>>)

\* C9 (as claimed): a user created for a customer email has that email,
\* userType NonMember, hasAstrology TRUE, firstName the first
\* whitespace-separated token of the display name and lastName the remaining
\* tokens joined; Unknown and User when there is no display name.
C9_CreatedUserNames ==
    \A r \in Requests :
        LET q == reqs[r] IN
        ErrsOf(q, "user.create") = {None}
        => LET name == CustomerNameOf(SessionOf(q.event))
               first == IF IsSome(name) THEN Tokens(Val(name))[1] ELSE Unknown
               last == IF IsSome(name)
                       THEN JoinSpace(Tail(Tokens(Val(name)))) ELSE User
           IN (IsSome(name) => Tokens(Val(name)) # <<>>)
              => \E i \in 1..Len(users) :
                    users[i] = [email |-> Val(EmailOf(q)), firstName |-> first,
                                lastName |-> last, userType |-> "NonMember",
                                hasAstrology |-> TRUE]

----------------------------------------------------------------------------
(* Properties of the structure checks, the user update and the responses *)

\* a correctly signed event, handled by the complete handler, that has no
\* type, has no data, or is a checkout completion whose session is absent
\* or has no id
MalformedForComplete(q) ==
    /\ q.impl = "complete"
    /\ q.verified
    /\ IsSome(q.event)
    /\ LET e == Val(q.event) IN
       \/ ~IsSome(e.type)
       \/ ~IsSome(e.data)
       \/ /\ e.type = Some(CheckoutCompleted)
          /\ \/ ~IsSome(Val(e.data).object)
             \/ ~IsSome(Val(Val(e.data).object).id)

\* C11 (as claimed): such an event is answered 400 and nothing is written to
\* the store.
C11_MalformedAnswered400 ==
    \A r \in Requests :
        MalformedForComplete(reqs[r])
        => /\ Answered(reqs[r])
           /\ reqs[r].status = <<400>>
           /\ reqs[r].ops = <<>>

\* C12: the step that updates the user found by the customer email changes
\* nothing but hasAstrology of the rows with that email, which it sets to
\* TRUE when it succeeds: firstName, lastName, email and userType stay, no row
\* is added or removed, and every other row stays as it is.
C12_UpdateOnlySetsFlag ==
    [][\A r \in Requests :
          (reqs[r].pc = "update" /\ reqs'[r].pc # "update")
          => /\ Len(users') = Len(users)
             /\ \A i \in 1..Len(users) :
                   IF users[i].email = Val(EmailOf(reqs[r]))
                   THEN /\ [users'[i] EXCEPT !.hasAstrology = FALSE]
                             = [users[i] EXCEPT !.hasAstrology = FALSE]
                        /\ ErrsOf(reqs'[r], "user.update") = {None}
                              => users'[i].hasAstrology
                   ELSE users'[i] = users[i]]_vars

\* the seeded user bought the product: only its flag changed
C12_Witness ==
    \E r \in Requests :
        /\ ErrsOf(reqs[r], "user.update") = {None}
        /\ EmailOf(reqs[r]) = Some(SeededEmail)
        /\ users = <<SeedUser1, [SeedUser2 EXCEPT !.hasAstrology = TRUE]>>

\* C14 (as claimed): every request that has ended has sent exactly one
\* response, with status 200, 400 or 500.
C14_ExactlyOneResponse ==
    \A r \in Requests :
        reqs[r].pc \in {"done", "crashed"}
        => /\ Len(reqs[r].status) = 1
           /\ reqs[r].status[1] \in {200, 400, 500}

\* the request's own create wrote the row
CreatedRow(q) == ErrsOf(q, "checkoutSession.create") = {None}

\* the request's create found the row of another request
SawDuplicate(q) == ErrsOf(q, "checkoutSession.create") = {Some(UniqueSessionMsg)}

\* the request has been received and has not ended
InFlight(q) == q.pc \notin {"idle", "done", "crashed"}

\* C13 (as claimed): when the create of a request of the complete handler
\* ends while another request of the complete handler with the same session
\* id is in flight, the create ended with the row or with a uniqueness
\* violation; if the other request's create has ended too, exactly one of the
\* two created the row and the other saw the violation; no two rows share a
\* stripeSessionId; and the request is not answered anything but 200.
C13_AsClaimed ==
    [][\A r1, r2 \in Requests :
          (/\ r1 # r2
           /\ reqs[r1].impl = "complete" /\ reqs[r2].impl = "complete"
           /\ reqs[r1].pc = "create" /\ reqs'[r1].pc # "create"
           /\ InFlight(reqs[r2])
           /\ SidOf(reqs[r1]) = SidOf(reqs[r2]))
          => /\ CreatedRow(reqs'[r1]) \/ SawDuplicate(reqs'[r1])
             /\ Called(reqs[r2], "checkoutSession.create")
                   => \/ CreatedRow(reqs'[r1]) /\ SawDuplicate(reqs[r2])
                      \/ CreatedRow(reqs[r2]) /\ SawDuplicate(reqs'[r1])
             /\ \A i, j \in 1..Len(sessions') :
                   sessions'[i].stripeSessionId = sessions'[j].stripeSessionId
                   => i = j
             /\ reqs'[r1].status \in {<<>>, <<200>>}]_vars

\* C13 (amended): no two rows share a stripeSessionId, and of the requests
\* that carry one session id and whose create the store answered (with the
\* row or with a uniqueness violation), exactly one created the row, every
\* other one saw the uniqueness violation, and each of them that the complete
\* handler has answered is answered 200.
C13_OneCreatePerSession ==
    /\ \A i, j \in 1..Len(sessions) :
          sessions[i].stripeSessionId = sessions[j].stripeSessionId => i = j
    /\ \A r \in Requests :
          CreateWentThrough(reqs[r])
          => /\ Cardinality({q \in Requests :
                                /\ CreateWentThrough(reqs[q])
                                /\ SidOf(reqs[q]) = SidOf(reqs[r])
                                /\ CreatedRow(reqs[q])}) = 1
             /\ Cardinality(SessionRowsWith(sessions, SidOf(reqs[r]))) = 1
             /\ (reqs[r].impl = "complete" /\ Answered(reqs[r]))
                   => reqs[r].status = <<200>>

\* two requests of the complete handler raced on one session id and the one
\* that arrived later won the create
C13_Witness ==
    \E r1, r2 \in Requests :
        /\ r1 < r2
        /\ reqs[r1].impl = "complete" /\ reqs[r2].impl = "complete"
        /\ SawDuplicate(reqs[r1]) /\ CreatedRow(reqs[r2])
        /\ SidOf(reqs[r1]) = SidOf(reqs[r2])
        /\ Answered(reqs[r1]) /\ Answered(reqs[r2])

\* the row the documentation describes for an inbound session: every inbound
\* value as it is, and the default where the value is absent
DocumentedRow(session) ==
    [stripeSessionId |-> Val(session.id),
     customerId |-> session.customer.id,
     customerEmail |-> CustomerEmailOf(session),
     amountTotal |-> IF IsSome(session.amount_total)
                     THEN Val(session.amount_total) ELSE 0,
     currency |-> IF IsSome(session.currency)
                  THEN Val(session.currency) ELSE "usd",
     paymentStatus |-> IF IsSome(session.payment_status)
                       THEN Val(session.payment_status) ELSE "unknown"]

\* C15 (as claimed): the row a request created has the inbound session id and
\* carries every field, each with the inbound value, or with null (customerId,
\* customerEmail), 0 (amountTotal), 'usd' (currency) or 'unknown'
\* (paymentStatus) when the inbound value is absent.
C15_RowAsDocumented ==
    \A r \in Requests :
        CreatedRow(reqs[r])
        => \E i \in 1..Len(sessions) :
              sessions[i] = DocumentedRow(SessionOf(reqs[r].event))

\* C16: no step of any request changes or removes a checkout-session row that
\* is in the store: the rows stay where they are and as they were first
\* written, also when a later delivery carries the same session id with other
\* field values.
C16_RowsNeverChange ==
    [][/\ Len(sessions') >= Len(sessions)
       /\ \A i \in 1..Len(sessions) :
             i <= Len(sessions') /\ sessions'[i] = sessions[i]]_vars

\* a delivery of session cs_1 with every optional field absent came after the
\* row of cs_1 was written with all fields present: the row is as first written
C16_Witness ==
    \E r1, r2 \in Requests :
        /\ reqs[r1].impl = "complete" /\ reqs[r2].impl = "complete"
        /\ CreatedRow(reqs[r1]) /\ SessionOf(reqs[r1].event) = SessionA
        /\ SawDuplicate(reqs[r2]) /\ SessionOf(reqs[r2].event) = SessionB
        /\ Answered(reqs[r2])
        /\ sessions = <<SessionData(SessionA)>>

\* the lookup returned an expanded product with the designated id or name
QualifyingItem(q) ==
    SomeItem(q, LAMBDA p : /\ p.kind = "object"
                           /\ \/ p.id = AstrologyProductId
                              \/ p.name = AstrologyProductName)

\* C18: a request of the complete handler whose create ended in a uniqueness
\* violation is never answered 500 and, when the session has a customer
\* email, is not answered before it has called the line-item lookup; when it
\* is answered after a lookup that returned a qualifying item and none of its
\* calls failed, the user of the customer email has hasAstrology = TRUE.
C18_DuplicateStillEntitles ==
    \A r \in Requests :
        (reqs[r].impl = "complete" /\ SawDuplicate(reqs[r]))
        => /\ reqs[r].status \in {<<>>, <<200>>}
           /\ (TruthyStr(EmailOf(reqs[r])) /\ Answered(reqs[r]))
                 => Called(reqs[r], "listLineItems")
           /\ (Answered(reqs[r]) /\ NoOutage(reqs[r]) /\ QualifyingItem(reqs[r]))
                 => \E i \in UserRowsWith(users, Val(EmailOf(reqs[r]))) :
                       users[i].hasAstrology

\* the first delivery recorded the session and its lookup failed; the
\* duplicate delivery granted the entitlement
C18_Witness ==
    \E r1, r2 \in Requests :
        /\ reqs[r1].impl = "complete" /\ reqs[r2].impl = "complete"
        /\ reqs[r1].event = reqs[r2].event
        /\ CreatedRow(reqs[r1])
        /\ ErrsOf(reqs[r1], "listLineItems") = {Some(LookupDownMsg)}
        /\ Answered(reqs[r1])
        /\ SawDuplicate(reqs[r2])
        /\ Answered(reqs[r2]) /\ NoOutage(reqs[r2]) /\ QualifyingItem(reqs[r2])
        /\ \E i \in UserRowsWith(users, Val(EmailOf(reqs[r2]))) :
              users[i].hasAstrology

\* the calls of a request in the order of the handler's text
StepOrder ==
    <<{"checkoutSession.create"}, {"listLineItems"}, {"user.findUnique"},
      {"user.update", "user.create"}>>

\* C19: in every request of the complete handler the steps occur in one order.
\* A request whose signature did not verify has decoded no event, made no call
\* and is answered 400; a request that waits for a call or has made one has a
\* verified signature and a checkout completion with a session id; its calls
\* are the session create, the line-item lookup, the user find, and the user
\* update or create, in this order and each at most once; a call follows the
\* session create only when that create ended with the row or a uniqueness
\* violation; and once the response is sent the request makes no further call.
C19_FixedStepOrder ==
    /\ [](\A r \in Requests :
            LET q == reqs[r] IN
            q.impl = "complete"
            => /\ ~q.verified
                  => /\ q.event = None /\ q.ops = <<>>
                     /\ q.status = <<400>> /\ q.pc = "done"
               /\ (InFlight(q) \/ q.ops # <<>>)
                  => /\ q.verified
                     /\ SignatureVerifies(q.sig, webhookSecret)
                     /\ ValidCheckout(q.event)
               /\ Len(q.ops) <= Len(StepOrder)
               /\ \A i \in 1..Len(q.ops) : q.ops[i].op \in StepOrder[i]
               /\ Len(q.ops) >= 2
                  => q.ops[1].err \in {None, Some(UniqueSessionMsg)}
               /\ q.status # <<>> => q.pc \in {"done", "crashed"})
    /\ [][\A r \in Requests :
            reqs[r].impl = "complete"
            => /\ reqs[r].status # <<>> => reqs'[r] = reqs[r]
               /\ \/ reqs'[r].ops = reqs[r].ops
                  \/ /\ Len(reqs'[r].ops) = Len(reqs[r].ops) + 1
                     /\ SubSeq(reqs'[r].ops, 1, Len(reqs[r].ops)) = reqs[r].ops
                     /\ reqs'[r].verified]_vars

\* a request went through all the steps and was answered 200
C19_Witness ==
    \E r \in Requests :
        /\ reqs[r].impl = "complete"
        /\ Len(reqs[r].ops) = 4
        /\ reqs[r].ops[4].op = "user.create"
        /\ reqs[r].status = <<200>>

\* the sessions whose delivery can reach the entitlement step
EntitledSessions == {s \in ValidSessions : TruthyStr(CustomerEmailOf(s))}

\* a user row without its names
Unnamed(row) == [row EXCEPT !.firstName = <<>>, !.lastName = <<>>]

\* C20 (as claimed): from every store the handler can leave, the entitlement
\* steps of two deliveries with the same customer email leave the same users
\* table in either order.
C20_AsClaimed ==
    \A s1, s2 \in EntitledSessions :
        CustomerEmailOf(s1) = CustomerEmailOf(s2)
        => EntitlementRun(EntitlementRun(users, s1), s2)
              = EntitlementRun(EntitlementRun(users, s2), s1)

\* from the users table u, the entitlement steps of two deliveries with the
\* same customer email leave, in either order, tables that agree in
\* everything but the names of the user, with hasAstrology = TRUE for that
\* user; they leave the same table when a user with that email exists or both
\* deliveries give the same first and last name, and otherwise the names are
\* those of the delivery that ran first
CommuteUpToNames(u) ==
    \A first \in {[s \in EntitledSessions |-> EntitlementRun(u, s)]} :
    \A s1, s2 \in EntitledSessions :
        (s1 # s2 /\ CustomerEmailOf(s1) = CustomerEmailOf(s2))
        => \A ab \in {EntitlementRun(first[s1], s2)},
              ba \in {EntitlementRun(first[s2], s1)},
              email \in {Val(CustomerEmailOf(s1))} :
              /\ Len(ab) = Len(ba)
              /\ \A i \in 1..Len(ab) :
                    /\ Unnamed(ab[i]) = Unnamed(ba[i])
                    /\ ab[i].email = email => ab[i].hasAstrology
              /\ Cardinality(UserRowsWith(ab, email)) = 1
              /\ (\/ UserRowsWith(u, email) # {}
                  \/ NewUserData(email, s1) = NewUserData(email, s2))
                    => ab = ba
              /\ UserRowsWith(u, email) = {}
                    => /\ ab = Append(u, NewUserData(email, s1))
                       /\ ba = Append(u, NewUserData(email, s2))

\* C20 (amended): a user write of a request that succeeds takes the users
\* table to EntitlementRun of it; and from the initial store and from every
\* store a step of the handler leaves, two deliveries with the same customer
\* email commute up to the names of a created user (CommuteUpToNames).
C20_CommuteUpToNames ==
    /\ CommuteUpToNames(users)
    /\ [][users' # users => CommuteUpToNames(users')]_vars
    /\ [][\A r \in Requests :
            (/\ reqs[r].pc \in {"update", "ucreate"}
             /\ reqs'[r].pc = "done"
             /\ reqs'[r].ops[Len(reqs'[r].ops)].err = None)
            => users' = EntitlementRun(users, SessionOf(reqs[r].event))]_vars

\* two deliveries with one email and different display names ran one after
\* the other with no user of that email in the store: the row has the names
\* of the first, and the other order would have left other names
C20_Witness ==
    \E r1, r2 \in Requests :
        /\ reqs[r1].impl = "complete" /\ reqs[r2].impl = "complete"
        /\ ValidCheckout(reqs[r1].event) /\ ValidCheckout(reqs[r2].event)
        /\ SessionOf(reqs[r1].event) = SessionA
        /\ SessionOf(reqs[r2].event) = SessionC
        /\ ErrsOf(reqs[r1], "user.create") = {None}
        /\ ErrsOf(reqs[r2], "user.update") = {None}
        /\ users = EntitlementRun(EntitlementRun(<<SeedUser1>>, SessionA), SessionC)
        /\ users # EntitlementRun(EntitlementRun(<<SeedUser1>>, SessionC), SessionA)

----------------------------------------------------------------------------
(* Redelivery.  The sender delivers one correctly signed checkout completion *)
(* to one handler and delivers it again after every 500; the endpoint secret *)
(* is configured; the store may be unreachable during every delivery but the *)
(* last one.  One request is in flight at a time and every call returns.     *)

InitRetry == Init /\ webhookSecret = Some(EndpointSecret)

\* the first delivery of the event
Deliver ==
    /\ reqs[1].pc = "idle"
    /\ \E impl \in Impls, s \in ValidSessions :
          \E n \in Enter(impl, Some(GoodSig), webhookSecret,
                         Event(Some(CheckoutCompleted), DataOf(Some(s)))) :
              reqs' = [reqs EXCEPT ![1] = n]
    /\ UNCHANGED <<webhookSecret, sessions, users>>

\* the sender delivers the event again after a 500
Redeliver(r) ==
    /\ r > 1
    /\ reqs[r].pc = "idle"
    /\ reqs[r - 1].status = <<500>>
    /\ \E n \in Enter(reqs[r - 1].impl, reqs[r - 1].sig, webhookSecret,
                      reqs[r - 1].event) :
          reqs' = [reqs EXCEPT ![r] = n]
    /\ UNCHANGED <<webhookSecret, sessions, users>>

\* the store is reachable in the step of the last delivery
StoreStaysUp(r) ==
    r = NumRequests
    => \A i \in 1..Len(reqs'[r].ops) : reqs'[r].ops[i].err # Some(StoreDownMsg)

NextRetry ==
    \/ Deliver
    \/ \E r \in Requests :
          \/ Redeliver(r)
          \/ SessionCreate(r) /\ StoreStaysUp(r)
          \/ ListLineItems(r, Listings)
          \/ UserFind(r) /\ StoreStaysUp(r)
          \/ UserUpdate(r) /\ StoreStaysUp(r)
          \/ UserCreate(r) /\ StoreStaysUp(r)

SpecRetry == InitRetry /\ [][NextRetry]_vars /\ WF_vars(NextRetry)

\* some delivery is answered 200
Delivered200 ==
    \E r \in Requests : reqs[r].pc = "done" /\ reqs[r].status = <<200>>

\* C17 (as claimed): when the event is delivered again after every 500 and the
\* store is reachable in the end, eventually the row of the session exists
\* and a delivery is answered 200; and when a delivery is answered 200 or 400
\* the row of its session exists.
C17_RedeliveryRecords ==
    /\ <>(/\ reqs[1].pc # "idle"
          /\ SessionRecorded(reqs[1])
          /\ Delivered200)
    /\ [](\A r \in Requests :
            (reqs[r].pc = "done" /\ reqs[r].status \in {<<200>>, <<400>>})
            => SessionRecorded(reqs[r]))

\* the same, of the complete handler alone
C17_CompleteHandlerRecords ==
    /\ <>(reqs[1].pc # "idle"
          /\ (reqs[1].impl = "complete" => SessionRecorded(reqs[1]) /\ Delivered200))
    /\ [](\A r \in Requests :
            (/\ reqs[r].impl = "complete" /\ reqs[r].pc = "done"
             /\ reqs[r].status \in {<<200>>, <<400>>})
            => SessionRecorded(reqs[r]))

----------------------------------------------------------------------------
(* Properties of racing user creates, of the 200 and 500 responses, of the  *)
(* two handlers and of the growth of the store                              *)

\* two requests of the complete handler for one customer email that both
\* found no user, both called the user create and are both answered
BothFoundNoUser(r1, r2) ==
    /\ r1 # r2
    /\ reqs[r1].impl = "complete" /\ reqs[r2].impl = "complete"
    /\ Called(reqs[r1], "user.create") /\ Called(reqs[r2], "user.create")
    /\ EmailOf(reqs[r1]) = EmailOf(reqs[r2])
    /\ Answered(reqs[r1]) /\ Answered(reqs[r2])

\* the store has exactly one user row of the request's customer email, with
\* hasAstrology = TRUE
OneEntitledUser(q) ==
    LET rows == UserRowsWith(users, Val(EmailOf(q))) IN
    /\ Cardinality(rows) = 1
    /\ \A i \in rows : users[i].hasAstrology

\* the store answered the request's user create, with the row or with a
\* uniqueness violation
UserCreateWentThrough(q) ==
    ErrsOf(q, "user.create") \subseteq {None, Some(UniqueEmailMsg)}

\* C21 (as claimed): after two such requests, in whatever order their finds
\* and creates ran, the store has exactly one user
\* row of that email, with hasAstrology = TRUE, and both are answered 200.
C21_AsClaimed ==
    \A r1, r2 \in Requests :
        BothFoundNoUser(r1, r2)
        => /\ OneEntitledUser(reqs[r1])
           /\ reqs[r1].status = <<200>> /\ reqs[r2].status = <<200>>

\* C21 (amended): the same, when the store answered at least one of the two
\* user creates; and both requests are answered 200 in every case.
C21_OneUserPerEmail ==
    \A r1, r2 \in Requests :
        BothFoundNoUser(r1, r2)
        => /\ reqs[r1].status = <<200>> /\ reqs[r2].status = <<200>>
           /\ (UserCreateWentThrough(reqs[r1]) \/ UserCreateWentThrough(reqs[r2]))
                 => OneEntitledUser(reqs[r1])

\* both requests found no user; the one that arrived later created the row
\* and the create of the earlier one ran into the uniqueness constraint
C21_Witness ==
    \E r1, r2 \in Requests :
        /\ r1 < r2
        /\ BothFoundNoUser(r1, r2)
        /\ ErrsOf(reqs[r1], "user.create") = {Some(UniqueEmailMsg)}
        /\ ErrsOf(reqs[r2], "user.create") = {None}
        /\ OneEntitledUser(reqs[r1])

\* C22 (as claimed): in the step in which a handler answers 200 to a checkout
\* completion with a session id, the store holds a checkout-session row with
\* that session id, whatever the entitlement step did.
C22_Answered200Recorded ==
    [][\A r \in Requests :
          (/\ reqs[r].status = <<>>
           /\ reqs'[r].status = <<200>>
           /\ ValidCheckout(reqs'[r].event))
          => SessionRowsWith(sessions', SidOf(reqs'[r])) # {}]_vars

\* the same, of the complete handler alone
C22_CompleteHandlerRecorded ==
    [][\A r \in Requests :
          (/\ reqs'[r].impl = "complete"
           /\ reqs[r].status = <<>>
           /\ reqs'[r].status = <<200>>
           /\ ValidCheckout(reqs'[r].event))
          => SessionRowsWith(sessions', SidOf(reqs'[r])) # {}]_vars

\* an exception after the signature was verified that is no structural
\* error, no duplicate session and no failure of the entitlement step: a read
\* of a field of an absent session, or a session create that failed for
\* another reason than uniqueness
UnclassifiedException(q) ==
    /\ q.verified
    /\ \/ q.pc = "crashed"
       \/ /\ Called(q, "checkoutSession.create")
          /\ ~CreateWentThrough(q)

\* C23 (as claimed): a request of the complete handler in which such an
\* exception was raised is answered 500.
C23_UnclassifiedAnswered500 ==
    \A r \in Requests :
        (reqs[r].impl = "complete" /\ UnclassifiedException(reqs[r]))
        => reqs[r].status = <<500>>

\* a checkout-session row without its customerEmail
WithoutEmail(row) == [row EXCEPT !.customerEmail = None]

\* a request that was answered for a correctly signed checkout completion with
\* a session id, after its session create ended
AnsweredCheckout(q) ==
    /\ q.verified
    /\ ValidCheckout(q.event)
    /\ Answered(q)
    /\ Called(q, "checkoutSession.create")

\* C24 (as claimed): a request of the complete handler and a request of the
\* basic handler that carry the same checkout completion and whose session
\* creates ended the same way are answered with the same status; and the row
\* that either handler creates is, apart from customerEmail, the row the
\* complete handler writes for the session.
C24_HandlersAgree ==
    /\ \A r1, r2 \in Requests :
          (/\ reqs[r1].impl = "complete" /\ reqs[r2].impl = "basic"
           /\ AnsweredCheckout(reqs[r1]) /\ AnsweredCheckout(reqs[r2])
           /\ reqs[r1].event = reqs[r2].event
           /\ reqs[r1].ops[1].err = reqs[r2].ops[1].err)
          => reqs[r1].status = reqs[r2].status
    /\ \A r \in Requests :
          (AnsweredCheckout(reqs[r]) /\ CreatedRow(reqs[r]))
          => \E i \in 1..Len(sessions) :
                WithoutEmail(sessions[i])
                   = WithoutEmail(SessionData(SessionOf(reqs[r].event)))

UserEmails(table) == {table[i].email : i \in 1..Len(table)}

SessionIds(table) == {table[i].stripeSessionId : i \in 1..Len(table)}

\* C25: in every step of every request of either handler, each user row stays
\* in the store with its email, a hasAstrology that is TRUE stays TRUE, and
\* the set of user emails and the set of recorded session ids lose no member.
C25_StoreOnlyGrows ==
    [][/\ Len(users') >= Len(users)
       /\ \A i \in 1..Len(users) :
             /\ i <= Len(users')
             /\ users'[i].email = users[i].email
             /\ users[i].hasAstrology => users'[i].hasAstrology
       /\ UserEmails(users) \subseteq UserEmails(users')
       /\ Len(sessions') >= Len(sessions)
       /\ SessionIds(sessions) \subseteq SessionIds(sessions')]_vars

\* two sessions were recorded, a user was created and then updated, and the
\* seeded user that had the entitlement still has it
C25_Witness ==
    /\ Len(sessions) = 2
    /\ Len(users) = 2
    /\ users[1] = SeedUser1
    /\ users[2].userType = "NonMember" /\ users[2].hasAstrology
    /\ \E r \in Requests : ErrsOf(reqs[r], "user.update") = {None}

\* C26: a request answered 500 has made no call but a session create that
\* failed for another reason than uniqueness: it created no checkout-session
\* row, issued no line-item lookup and called no user operation; and the step
\* in which a request is answered 500 leaves the checkout sessions and the
\* users as they were.
C26_Answered500ChangedNothing ==
    /\ [](\A r \in Requests :
            reqs[r].status = <<500>>
            => /\ Len(reqs[r].ops) <= 1
               /\ \A i \in 1..Len(reqs[r].ops) :
                     /\ reqs[r].ops[i].op = "checkoutSession.create"
                     /\ IsSome(reqs[r].ops[i].err)
                     /\ ~IsDuplicate(reqs[r].ops[i].err))
    /\ [][\A r \in Requests :
            (reqs[r].status = <<>> /\ reqs'[r].status = <<500>>)
            => sessions' = sessions /\ users' = users]_vars

\* the session create of a request failed while another request had recorded
\* a session: the request is answered 500, its session has no row, and the
\* row of the other request is there
C26_Witness ==
    \E r \in Requests :
        /\ reqs[r].impl = "complete"
        /\ reqs[r].status = <<500>>
        /\ Called(reqs[r], "checkoutSession.create")
        /\ SessionRowsWith(sessions, SidOf(reqs[r])) = {}
        /\ Len(sessions) = 1

====
